---------------------------- MODULE Spec2Model ----------------------------
(***************************************************************************)
(* Model of parseExcelToSoW (src/shared/schema.ts:546-640), the heuristic  *)
(* converter from a two-column grid of cells to a chapter / subchapter     *)
(* document.                                                               *)
(*                                                                         *)
(* JavaScript strings are modelled as sequences of one-character strings   *)
(* so that trim, toLowerCase, includes and the two regular expressions are *)
(* computed character by character.  The bullet character U+2022 is the    *)
(* one-element token "bullet".                                             *)
(***************************************************************************)
EXTENDS Integers, Sequences, FiniteSets, TLC

(***************************************************************************)
(* Bounds of the explored input space.                                     *)
(***************************************************************************)
MaxBody == 3
MaxDeep == 4
MaxMeta == 6
MaxDetail == 3
MaxRequests == 3

\* longest body of the grids built from ContentRows
MaxContent == 3

\* number of requests to the document and user routes
MaxStoreRequests == 4

(***************************************************************************)
(* Characters and JavaScript string primitives.                            *)
(***************************************************************************)
UpperCase == <<"A","B","C","D","E","F","G","H","I","J","K","L","M",
               "N","O","P","Q","R","S","T","U","V","W","X","Y","Z">>

LowerCase == <<"a","b","c","d","e","f","g","h","i","j","k","l","m",
               "n","o","p","q","r","s","t","u","v","w","x","y","z">>

Digits == <<"0","1","2","3","4","5","6","7","8","9">>

Range(f) == { f[k] : k \in DOMAIN f }

Min(a, b) == IF a < b THEN a ELSE b

\* \d
IsDigit(c) == c \in Range(Digits)

\* [a-z] under the i flag
IsAlpha(c) == c \in Range(LowerCase) \cup Range(UpperCase)

\* \s, and the characters String.prototype.trim removes
IsSpace(c) == c \in {" ", "\n", "\t"}

ToLowerChar(c) ==
  IF c \in Range(UpperCase)
    THEN LowerCase[CHOOSE k \in DOMAIN UpperCase : UpperCase[k] = c]
    ELSE c

\* String.prototype.toLowerCase
ToLowerCase(s) == [k \in 1..Len(s) |-> ToLowerChar(s[k])]

\* first index >= k that does not hold whitespace (Len(s)+1 when none)
RECURSIVE SkipSpaces(_, _)
SkipSpaces(s, k) ==
  IF k <= Len(s) /\ IsSpace(s[k]) THEN SkipSpaces(s, k + 1) ELSE k

\* first index >= k that does not hold a digit (Len(s)+1 when none)
RECURSIVE SkipDigits(_, _)
SkipDigits(s, k) ==
  IF k <= Len(s) /\ IsDigit(s[k]) THEN SkipDigits(s, k + 1) ELSE k

\* last index <= k that does not hold whitespace (0 when none)
RECURSIVE SkipSpacesBack(_, _)
SkipSpacesBack(s, k) ==
  IF k >= 1 /\ IsSpace(s[k]) THEN SkipSpacesBack(s, k - 1) ELSE k

\* String.prototype.trim
Trim(s) == SubSeq(s, SkipSpaces(s, 1), SkipSpacesBack(s, Len(s)))

\* String.prototype.startsWith
StartsWith(s, p) == Len(p) <= Len(s) /\ SubSeq(s, 1, Len(p)) = p

\* String.prototype.includes
Includes(s, sub) ==
  \E k \in 0..(Len(s) - Len(sub)) : SubSeq(s, k + 1, k + Len(sub)) = sub

\* String(n) for a non-negative integer n
RECURSIVE NumberToString(_)
NumberToString(n) ==
  IF n < 10 THEN <<Digits[n + 1]>>
            ELSE NumberToString(n \div 10) \o <<Digits[(n % 10) + 1]>>

(***************************************************************************)
(* Cell values: a string, a number, or undefined (absent cell).            *)
(***************************************************************************)
Str(s) == [t |-> "string", s |-> s, n |-> 0]

Num(n) == [t |-> "number", s |-> <<>>, n |-> n]

Undefined == [t |-> "undefined", s |-> <<>>, n |-> 0]

\* JavaScript truthiness of a cell: "" , 0 and undefined are falsy
Truthy(c) ==
  \/ c.t = "string" /\ c.s # <<>>
  \/ c.t = "number" /\ c.n # 0

\* String(c)
ToStr(c) ==
  IF c.t = "string" THEN c.s
  ELSE IF c.t = "number" THEN NumberToString(c.n)
  ELSE <<"u","n","d","e","f","i","n","e","d">>

(***************************************************************************)
(* Rows: an array of cells, a null / undefined entry of the outer array,   *)
(* or a hole of a sparse outer array.                                      *)
(***************************************************************************)
Row(cells) == [kind |-> "array", cells |-> cells]

NullRow == [kind |-> "null", cells |-> <<>>]

HoleRow == [kind |-> "hole", cells |-> <<>>]

\* !row
RowFalsy(row) == row.kind # "array"

\* row[k] with k counted from 0: undefined beyond the end of the array
CellAt(row, k) ==
  IF k + 1 <= Len(row.cells) THEN row.cells[k + 1] ELSE Undefined

(***************************************************************************)
(* The grid handed to parseExcelToSoW: an array of rows, or undefined.     *)
(***************************************************************************)
Grid(rows) == [kind |-> "array", rows |-> rows]

NoGrid == [kind |-> "undefined", rows |-> <<>>]

\* data[k] with k counted from 0
RowAt(d, k) == d.rows[k + 1]

\* variant: the length test is missing
IsEmptyInputNoLengthTest(d) == d.kind # "array"

\* !data || data.length === 0
IsEmptyInput(d) == d.kind # "array" \/ Len(d.rows) = 0

(***************************************************************************)
(* Constant strings of the parser.                                         *)
(***************************************************************************)
kwTitle == <<"t","i","t","l","e">>

kwProject == <<"p","r","o","j","e","c","t">>

kwDescription == <<"d","e","s","c","r","i","p","t","i","o","n">>

kwOverview == <<"o","v","e","r","v","i","e","w">>

kwRequirement == <<"r","e","q","u","i","r","e","m","e","n","t">>

kwDeliverable == <<"d","e","l","i","v","e","r","a","b","l","e">>

kwTimeline == <<"t","i","m","e","l","i","n","e">>

kwBudget == <<"b","u","d","g","e","t">>

kwChapter == <<"c","h","a","p","t","e","r">>

DefaultTitle ==
  <<"I","m","p","o","r","t","e","d"," ","S","o","W"," ",
    "D","o","c","u","m","e","n","t">>

DefaultDescription ==
  <<"I","m","p","o","r","t","e","d"," ","f","r","o","m"," ",
    "E","x","c","e","l"," ","f","i","l","e">>

FallbackTitle ==
  <<"P","r","o","j","e","c","t"," ","O","v","e","r","v","i","e","w">>

(***************************************************************************)
(* Metadata scan, lines 556-565.                                           *)
(***************************************************************************)
\* variant: every row is scanned for metadata
MetaWindowAll(len) == len

\* variant: the window is one row longer
MetaWindowSix(len) == Min(6, len)

\* Math.min(5, data.length)
MetaWindow(len) == Min(5, len)

\* row && row[0] && typeof row[0] === 'string' && row[0].trim()
IsMetaCandidate(row) ==
  /\ ~RowFalsy(row)
  /\ Truthy(CellAt(row, 0))
  /\ CellAt(row, 0).t = "string"
  /\ Trim(CellAt(row, 0).s) # <<>>

\* variant: a falsy cell 1 clears the field
CellOrKeepClears(c, old) == IF Truthy(c) THEN Trim(ToStr(c)) ELSE <<>>

\* row[1] ? String(row[1]).trim() : old
CellOrKeep(c, old) == IF Truthy(c) THEN Trim(ToStr(c)) ELSE old

\* variant: the description test is not in the else branch
MetaRowStepBothTests(t, d, row) ==
  IF ~IsMetaCandidate(row)
    THEN [title |-> t, description |-> d]
    ELSE LET low == ToLowerCase(CellAt(row, 0).s)
         IN  [title |->
                IF Includes(low, kwTitle) \/ Includes(low, kwProject)
                  THEN CellOrKeep(CellAt(row, 1), t) ELSE t,
              description |->
                IF Includes(low, kwDescription)
                  THEN CellOrKeep(CellAt(row, 1), d) ELSE d]

\* one iteration of the loop body: the new title and description
MetaRowStep(t, d, row) ==
  IF ~IsMetaCandidate(row)
    THEN [title |-> t, description |-> d]
    ELSE LET low == ToLowerCase(CellAt(row, 0).s)
         IN  IF Includes(low, kwTitle) \/ Includes(low, kwProject)
               THEN [title |-> CellOrKeep(CellAt(row, 1), t),
                     description |-> d]
             ELSE IF Includes(low, kwDescription)
               THEN [title |-> t,
                     description |-> CellOrKeep(CellAt(row, 1), d)]
             ELSE [title |-> t, description |-> d]

(***************************************************************************)
(* Row classification of the body scan, lines 577-603.                     *)
(***************************************************************************)
\* variant: the regular expression without the i flag
LeadAtCaseSensitive(s, k) ==
  k <= Len(s) /\ (IsDigit(s[k]) \/ s[k] \in Range(LowerCase))

\* a position holding the first character of \d+\.?\s* or [a-z]\.?\s*
LeadAt(s, k) == k <= Len(s) /\ (IsDigit(s[k]) \/ IsAlpha(s[k]))

\* variant: the digit or letter must be followed by a dot
ChapterPatternDotRequired(s) ==
  \/ LeadAt(s, 1) /\ 2 <= Len(s) /\ s[2] = "."
  \/ /\ StartsWith(ToLowerCase(s), kwChapter)
     /\ LeadAt(s, SkipSpaces(s, Len(kwChapter) + 1))

\* cellValue.match(/^(chapter\s*)?(\d+\.?\s*|[a-z]\.?\s*)/i): the optional
\* group is either skipped or matched
ChapterPattern(s) ==
  \/ LeadAt(s, 1)
  \/ /\ StartsWith(ToLowerCase(s), kwChapter)
     /\ LeadAt(s, SkipSpaces(s, Len(kwChapter) + 1))

IsChapterStart(cellValue) ==
  \/ ChapterPattern(cellValue)
  \/ Includes(ToLowerCase(cellValue), kwOverview)
  \/ Includes(ToLowerCase(cellValue), kwRequirement)
  \/ Includes(ToLowerCase(cellValue), kwDeliverable)
  \/ Includes(ToLowerCase(cellValue), kwTimeline)
  \/ Includes(ToLowerCase(cellValue), kwBudget)

\* index just after a match of (\d+\.\d+|[a-z]\)|bullet|-) starting at k,
\* or 0 when none of the alternatives matches there
SubTokenEnd(s, k) ==
  IF k > Len(s) THEN 0
  ELSE IF IsDigit(s[k])
    THEN LET dot == SkipDigits(s, k)
         IN  IF /\ dot + 1 <= Len(s)
                /\ s[dot] = "."
                /\ IsDigit(s[dot + 1])
               THEN SkipDigits(s, dot + 1)
               ELSE 0
  ELSE IF IsAlpha(s[k])
    THEN IF k + 1 <= Len(s) /\ s[k + 1] = ")" THEN k + 2 ELSE 0
  ELSE IF s[k] \in {"bullet", "-"} THEN k + 1
  ELSE 0

\* cellValue.match(/^\s*(\d+\.\d+|[a-z]\)|bullet|-)/i)
SubchapterPattern(s) == SubTokenEnd(s, SkipSpaces(s, 1)) # 0

IsSubchapterStart(cellValue) ==
  SubchapterPattern(cellValue) \/ StartsWith(cellValue, <<" ", " ">>)

\* cellValue.replace(/^\s*(\d+\.\d+|[a-z]\)|bullet|-)\s*/i, '')
StripSubchapterPrefix(s) ==
  LET e == SubTokenEnd(s, SkipSpaces(s, 1))
  IN  IF e = 0 THEN s ELSE SubSeq(s, SkipSpaces(s, e), Len(s))

(***************************************************************************)
(* Chapters, subchapters and the three branches of the body scan.          *)
(***************************************************************************)
Null == [null |-> TRUE]

\* variant: the counter is incremented before it is read
NewChapterPreIncrement(counter, cellValue, contentValue) ==
  [id |-> NumberToString(counter + 1),
   title |-> cellValue,
   content |-> contentValue,
   subchapters |-> <<>>]

\* lines 594-599: the chapter object created from a chapter-start row
NewChapter(counter, cellValue, contentValue) ==
  [id |-> NumberToString(counter),
   title |-> cellValue,
   content |-> contentValue,
   subchapters |-> <<>>]

\* variant: the title keeps the prefix
NewSubchapterKeepsPrefix(chapterId, counter, cellValue, contentValue) ==
  [id |-> chapterId \o <<".">> \o NumberToString(counter),
   title |-> cellValue,
   content |-> contentValue]

\* lines 604-608: the subchapter object pushed onto the open chapter
NewSubchapter(chapterId, counter, cellValue, contentValue) ==
  [id |-> chapterId \o <<".">> \o NumberToString(counter),
   title |-> StripSubchapterPrefix(cellValue),
   content |-> contentValue]

\* cellValue + (contentValue ? ': ' + contentValue : '')
ContentLine(cellValue, contentValue) ==
  cellValue \o (IF contentValue # <<>>
                  THEN <<":", " ">> \o contentValue
                  ELSE <<>>)

\* variant: the newline is added also to an empty content
AppendContentAlwaysNewline(content, cellValue, contentValue) ==
  content \o <<"\n">> \o ContentLine(cellValue, contentValue)

\* lines 611-615: the open chapter's content after a content row
AppendContent(content, cellValue, contentValue) ==
  IF content # <<>>
    THEN content \o <<"\n">> \o ContentLine(cellValue, contentValue)
    ELSE ContentLine(cellValue, contentValue)

\* the locals of the body scan
Locals(chs, cur, cc, sc) ==
  [chapters |-> chs, currentChapter |-> cur,
   chapterCounter |-> cc, subChapterCounter |-> sc]

\* variant: the subchapter counter is not reset
StartChapterNoReset(st, cellValue, contentValue) ==
  Locals(IF st.currentChapter # Null
           THEN Append(st.chapters, st.currentChapter)
           ELSE st.chapters,
         NewChapter(st.chapterCounter, cellValue, contentValue),
         st.chapterCounter + 1,
         st.subChapterCounter)

\* lines 588-600: a chapter-start row
StartChapter(st, cellValue, contentValue) ==
  Locals(IF st.currentChapter # Null
           THEN Append(st.chapters, st.currentChapter)
           ELSE st.chapters,
         NewChapter(st.chapterCounter, cellValue, contentValue),
         st.chapterCounter + 1,
         1)

\* lines 604-608: a subchapter row under the open chapter
AddSubchapter(st, cellValue, contentValue) ==
  Locals(st.chapters,
         [st.currentChapter EXCEPT !.subchapters =
            Append(@, NewSubchapter(st.currentChapter.id,
                                    st.subChapterCounter,
                                    cellValue, contentValue))],
         st.chapterCounter,
         st.subChapterCounter + 1)

\* lines 610-615: a content row under the open chapter
AddContent(st, cellValue, contentValue) ==
  Locals(st.chapters,
         [st.currentChapter EXCEPT !.content =
            AppendContent(@, cellValue, contentValue)],
         st.chapterCounter,
         st.subChapterCounter)

\* variant: a skipped row restarts the subchapter numbering
BodyRowStepBlankResets(st, row) ==
  IF RowFalsy(row) \/ ~Truthy(CellAt(row, 0))
    THEN Locals(st.chapters, st.currentChapter, st.chapterCounter, 1)
    ELSE LET cellValue == Trim(ToStr(CellAt(row, 0)))
             contentValue == IF Truthy(CellAt(row, 1))
                               THEN Trim(ToStr(CellAt(row, 1)))
                               ELSE <<>>
         IN  IF IsChapterStart(cellValue)
               THEN StartChapter(st, cellValue, contentValue)
             ELSE IF st.currentChapter # Null /\ cellValue # <<>>
               THEN IF IsSubchapterStart(cellValue)
                      THEN AddSubchapter(st, cellValue, contentValue)
                      ELSE AddContent(st, cellValue, contentValue)
             ELSE st

\* variant: a row outside any chapter opens an implicit chapter
BodyRowStepImplicitChapter(st, row) ==
  IF RowFalsy(row) \/ ~Truthy(CellAt(row, 0))
    THEN st
    ELSE LET cellValue == Trim(ToStr(CellAt(row, 0)))
             contentValue == IF Truthy(CellAt(row, 1))
                               THEN Trim(ToStr(CellAt(row, 1)))
                               ELSE <<>>
         IN  IF IsChapterStart(cellValue) \/ st.currentChapter = Null
               THEN StartChapter(st, cellValue, contentValue)
             ELSE IF IsSubchapterStart(cellValue)
               THEN AddSubchapter(st, cellValue, contentValue)
             ELSE AddContent(st, cellValue, contentValue)

\* variant: the subchapter test comes before the chapter-start test
BodyRowStepSubchapterFirst(st, row) ==
  IF RowFalsy(row) \/ ~Truthy(CellAt(row, 0))
    THEN st
    ELSE LET cellValue == Trim(ToStr(CellAt(row, 0)))
             contentValue == IF Truthy(CellAt(row, 1))
                               THEN Trim(ToStr(CellAt(row, 1)))
                               ELSE <<>>
         IN  IF st.currentChapter # Null /\ IsSubchapterStart(cellValue)
               THEN AddSubchapter(st, cellValue, contentValue)
             ELSE IF IsChapterStart(cellValue)
               THEN StartChapter(st, cellValue, contentValue)
             ELSE IF st.currentChapter # Null /\ cellValue # <<>>
               THEN AddContent(st, cellValue, contentValue)
             ELSE st

\* lines 574-617: one iteration of the body loop
BodyRowStep(st, row) ==
  IF RowFalsy(row) \/ ~Truthy(CellAt(row, 0))
    THEN st
    ELSE LET cellValue == Trim(ToStr(CellAt(row, 0)))
             contentValue == IF Truthy(CellAt(row, 1))
                               THEN Trim(ToStr(CellAt(row, 1)))
                               ELSE <<>>
         IN  IF IsChapterStart(cellValue)
               THEN StartChapter(st, cellValue, contentValue)
             ELSE IF st.currentChapter # Null /\ cellValue # <<>>
               THEN IF IsSubchapterStart(cellValue)
                      THEN AddSubchapter(st, cellValue, contentValue)
                      ELSE AddContent(st, cellValue, contentValue)
             ELSE st

(***************************************************************************)
(* Fallback chapter, lines 626-633.                                        *)
(***************************************************************************)
\* Array.prototype.join: undefined elements become the empty string
RECURSIVE Join(_, _)
Join(strs, sep) ==
  IF Len(strs) = 0 THEN <<>>
  ELSE IF Len(strs) = 1 THEN strs[1]
  ELSE strs[1] \o sep \o Join(Tail(strs), sep)

\* the text Array.prototype.join uses for one cell
CellText(c) == IF c.t = "undefined" THEN <<>> ELSE ToStr(c)

\* row.join(' ')
RowJoin(row) == Join([k \in 1..Len(row.cells) |-> CellText(row.cells[k])],
                     <<" ">>)

\* data.slice(1)
BodyRows(d) == SubSeq(d.rows, 2, Len(d.rows))

\* row => row.join(' ') reads a property of null or undefined: map calls it
\* on every element that is not a hole
FallbackThrows(d) == \E k \in 1..Len(BodyRows(d)) : BodyRows(d)[k].kind = "null"

\* variant: the header row is not sliced off
FallbackContentFromRowZero(d) ==
  Join([k \in 1..Len(d.rows) |->
          IF d.rows[k].kind = "hole" THEN <<>> ELSE RowJoin(d.rows[k])],
       <<"\n">>)

\* data.slice(1).map(row => row.join(' ')).join('\n'): map keeps the holes
\* and join renders them as empty strings
FallbackContent(d) ==
  Join([k \in 1..Len(BodyRows(d)) |->
          IF BodyRows(d)[k].kind = "hole" THEN <<>>
                                          ELSE RowJoin(BodyRows(d)[k])],
       <<"\n">>)

FallbackChapter(d) ==
  [id |-> <<"1">>,
   title |-> FallbackTitle,
   content |-> FallbackContent(d),
   subchapters |-> <<>>]

(***************************************************************************)
(* Input space.  Cells and rows are taken from the shapes the parser       *)
(* distinguishes: numbered, keyword, bullet, plain and symbol-led text,    *)
(* numbers, empty and absent cells, empty, null and missing rows.          *)
(***************************************************************************)
sH == <<"H">>

sRandomNote == <<"r","a","n","d","o","m"," ","n","o","t","e">>

sX == <<"x">>

sScope == <<"1",".","1"," ","S","c","o","p","e">>

sInScope == <<"I","n"," ","s","c","o","p","e"," ","i","t","e","m","s">>

sSubNote == <<" "," ","s","u","b"," ","n","o","t","e">>

sS == <<"s">>

sPlan == <<"1","."," ","P","l","a","n">>

sP == <<"p">>

sBuild == <<"2","."," ","B","u","i","l","d">>

sB == <<"b">>

sDashItem == <<"-"," ","i","t","e","m">>

sD == <<" ","d"," ">>

sBulletPoint == <<"bullet"," "," ","p","o","i","n","t">>

sParenNote == <<"(","n","o","t","e",")">>

sV == <<"v">>

sHashBudget == <<"#","B","U","D","G","E","T">>

sTitle == <<"T","i","t","l","e">>

sMyProject == <<"M","y"," ","P","r","o","j","e","c","t">>

sDescription == <<"D","E","S","C","R","I","P","T","I","O","N">>

sBang == <<"!">>

HeaderRow == Row(<<Str(sH)>>)

RandomNoteRow == Row(<<Str(sRandomNote), Str(sX)>>)

ScopeRow == Row(<<Str(sScope), Str(sInScope)>>)

SubNoteRow == Row(<<Str(sSubNote), Str(sS)>>)

PlanRow == Row(<<Str(sPlan), Str(sP)>>)

BuildRow == Row(<<Str(sBuild), Str(sB)>>)

DashItemRow == Row(<<Str(sDashItem), Str(sD)>>)

BulletPointRow == Row(<<Str(sBulletPoint)>>)

ParenNoteRow == Row(<<Str(sParenNote), Str(sV)>>)

BangRow == Row(<<Str(sBang)>>)

HashBudgetRow == Row(<<Str(sHashBudget), Str(sB)>>)

NumberRow == Row(<<Num(7), Num(5)>>)

EmptyCellRow == Row(<<Str(<<>>), Str(sX)>>)

EmptyRow == Row(<<>>)

TitleRow == Row(<<Str(sTitle), Str(sMyProject)>>)

DescriptionRow == Row(<<Str(sDescription), Str(sD)>>)

sHeader == <<"H","e","a","d","e","r">>

sOverview == <<"O","v","e","r","v","i","e","w">>

sIntroText == <<"I","n","t","r","o"," ","t","e","x","t">>

sRequirementA == <<"R","e","q","u","i","r","e","m","e","n","t"," ","A">>

sRequirementB == <<"R","e","q","u","i","r","e","m","e","n","t"," ","B">>

sDescA == <<"d","e","s","c"," ","A">>

sDescB == <<"d","e","s","c"," ","B">>

sLetterItem == <<"a",")"," ","i","t","e","m">>

sProjectDescription ==
  <<"P","r","o","j","e","c","t"," ","d","e","s","c","r","i","p","t","i","o","n">>

sPD == <<"p","d">>

sProject == <<"p","r","o","j","e","c","t">>

sOther == <<"O","t","h","e","r">>

HeaderEmptyRow == Row(<<Str(sHeader), Str(<<>>)>>)

OverviewRow == Row(<<Str(sOverview), Str(sIntroText)>>)

RequirementARow == Row(<<Str(sRequirementA), Str(sDescA)>>)

RequirementBRow == Row(<<Str(sRequirementB), Str(sDescB)>>)

LetterItemRow == Row(<<Str(sLetterItem), Str(sX)>>)

ProjectDescriptionRow == Row(<<Str(sProjectDescription), Str(sPD)>>)

ProjectNoValueRow == Row(<<Str(sProject)>>)

ProjectNumberRow == Row(<<Str(sProject), Num(5)>>)

TitleZeroRow == Row(<<Str(sTitle), Num(0)>>)

DescriptionEmptyRow == Row(<<Str(sDescription), Str(<<>>)>>)

OtherTitleRow == Row(<<Str(sTitle), Str(sOther)>>)

sDoubleDash == <<"-","-"," ","x">>
sSpaces == <<" "," ">>

DoubleDashRow == Row(<<Str(sDoubleDash), Str(sX)>>)

\* cell 0 is truthy and empty after the trim
SpacesRow == Row(<<Str(sSpaces), Str(sX)>>)

\* cell 0 is the number 0
ZeroRow == Row(<<Num(0), Str(sX)>>)

\* a content row whose cell 1 is empty after the trim
BangSpacesRow == Row(<<Str(sBang), Str(sSpaces)>>)

\* rows of every kind, for short grids
MixedRows ==
  {NullRow, HoleRow, EmptyRow, EmptyCellRow, NumberRow, RandomNoteRow,
   ScopeRow, SubNoteRow, PlanRow, BuildRow, DashItemRow, ParenNoteRow}

\* rows that open chapters, add subchapters or add content, for deep grids
StructureRows ==
  {PlanRow, HashBudgetRow, DashItemRow, BulletPointRow, ParenNoteRow}

\* rows with and without metadata keywords, for long grids
MetaRows == {TitleRow, DescriptionRow, BangRow}

\* metadata rows with present, empty, absent, zero and numeric values
MetaDetailRows ==
  {TitleRow, DescriptionRow, ProjectDescriptionRow, ProjectNoValueRow,
   ProjectNumberRow, TitleZeroRow, DescriptionEmptyRow, BangRow}

\* chapter starts with and without content, content rows with and without
\* cell 1, skipped rows and a subchapter row with a doubled prefix
ContentRows ==
  {HeaderRow, PlanRow, ParenNoteRow, BangRow, BangSpacesRow, SpacesRow,
   ZeroRow, DoubleDashRow}

SeqsUpTo(S, n) == UNION { [1..k -> S] : k \in 0..n }

\* the example grids of the specification
ExampleGrids ==
  {Grid(<<HeaderEmptyRow, TitleRow, OverviewRow>>),
   Grid(<<HeaderEmptyRow, TitleRow, OverviewRow, ScopeRow>>),
   Grid(<<HeaderRow, RequirementARow, RequirementBRow>>),
   Grid(<<HeaderRow, PlanRow, LetterItemRow>>),
   Grid(<<HeaderRow, HashBudgetRow, LetterItemRow, ScopeRow>>)}

Grids ==
  {NoGrid, Grid(<<>>)}
    \cup { Grid(<<HeaderRow>> \o b) : b \in SeqsUpTo(MixedRows, MaxBody) }
    \cup { Grid(<<HeaderRow>> \o b) : b \in SeqsUpTo(StructureRows, MaxDeep) }
    \cup { Grid(r) : r \in SeqsUpTo(MetaRows, MaxMeta) }
    \cup { Grid(r) : r \in SeqsUpTo(MetaDetailRows, MaxDetail) }
    \cup { Grid(<<HeaderRow>> \o b) : b \in SeqsUpTo(ContentRows, MaxContent) }
    \cup ExampleGrids

(***************************************************************************)
(* One invocation of parseExcelToSoW as a state machine.  pc is the        *)
(* position in the function, i the index of the running loop, and          *)
(* usedFallback records that the branch of line 626 was taken.             *)
(***************************************************************************)
VARIABLES data, pc, i, title, description, chapters, currentChapter,
          chapterCounter, subChapterCounter, usedFallback, result

(***************************************************************************)
(* The server around the parser: the document store of MemStorage, the     *)
(* import request in progress and its response.  calls records the grid    *)
(* and the outcome of every finished invocation of parseExcelToSoW, served *)
(* counts the answered requests, clock stands for new Date().              *)
(***************************************************************************)
VARIABLES documents, currentDocumentId, clock, authorId, response, calls,
          served

(***************************************************************************)
(* The user store of MemStorage; assigned lists the ids handed out by      *)
(* createDocument, in order; other holds the locals of a second invocation *)
(* of parseExcelToSoW while it is not the running one.                     *)
(***************************************************************************)
VARIABLES users, currentUserId, assigned, other

userStore == <<users, currentUserId>>

env == <<documents, currentDocumentId, clock, authorId, response, calls,
         served, users, currentUserId, assigned, other>>

vars == <<data, pc, i, title, description, chapters, currentChapter,
          chapterCounter, subChapterCounter, usedFallback, result,
          documents, currentDocumentId, clock, authorId, response, calls,
          served, users, currentUserId, assigned, other>>

\* no second invocation
NoInvocation == [pc |-> "none"]

\* storage.ts lines 97-106: the stored user of createUser
NewUser(id, now, insertUser) ==
  [id |-> id,
   username |-> insertUser.username,
   email |-> insertUser.email,
   password |-> insertUser.password,
   role |-> insertUser.role,
   lastActive |-> now]

\* storage.ts lines 76-81: the user the constructor creates
AdminUser ==
  [username |-> "admin", email |-> "admin@example.com",
   password |-> "admin123", role |-> "admin"]

\* MemStorage constructor, storage.ts lines 62-82; no request yet
InitEnv ==
  /\ documents = <<>>
  /\ currentDocumentId = 1
  /\ clock = 0
  /\ authorId = 0
  /\ response = [status |-> 0]
  /\ calls = <<>>
  /\ served = 0
  /\ users = (1 :> NewUser(1, 0, AdminUser))
  /\ currentUserId = 2
  /\ assigned = <<>>
  /\ other = NoInvocation

NoResult == [kind |-> "none"]

Thrown(name, message) == [kind |-> "throw", error |-> name, message |-> message]

Returned(t, d, chs) ==
  [kind |-> "return", title |-> t, description |-> d, chapters |-> chs]

\* the call: the locals are not declared yet
Init ==
  /\ data \in Grids
  /\ pc = "entry"
  /\ i = 0
  /\ title = <<>>
  /\ description = <<>>
  /\ chapters = <<>>
  /\ currentChapter = Null
  /\ chapterCounter = 0
  /\ subChapterCounter = 0
  /\ usedFallback = FALSE
  /\ result = NoResult
  /\ InitEnv

\* lines 547-549: empty input throws
ThrowEmpty ==
  /\ pc = "entry"
  /\ IsEmptyInput(data)
  /\ result' = Thrown("Error", "Empty Excel file")
  /\ pc' = "done"
  /\ UNCHANGED <<data, i, title, description, chapters, currentChapter,
                 chapterCounter, subChapterCounter, usedFallback>>
  /\ UNCHANGED env

\* lines 552-556: defaults, and the metadata loop starts at row 0
BeginMeta ==
  /\ pc = "entry"
  /\ ~IsEmptyInput(data)
  /\ title' = DefaultTitle
  /\ description' = DefaultDescription
  /\ i' = 0
  /\ pc' = "meta"
  /\ UNCHANGED <<data, chapters, currentChapter, chapterCounter,
                 subChapterCounter, usedFallback, result>>
  /\ UNCHANGED env

\* lines 556-565: one iteration of the metadata loop
MetaScanStep ==
  /\ pc = "meta"
  /\ i < MetaWindow(Len(data.rows))
  /\ LET m == MetaRowStep(title, description, RowAt(data, i))
     IN  /\ title' = m.title
         /\ description' = m.description
  /\ i' = i + 1
  /\ UNCHANGED <<data, pc, chapters, currentChapter, chapterCounter,
                 subChapterCounter, usedFallback, result>>
  /\ UNCHANGED env

\* variant: the counters live outside the function and are set only once
BeginBodySharedCounters ==
  /\ pc = "meta"
  /\ ~(i < MetaWindow(Len(data.rows)))
  /\ chapters' = <<>>
  /\ currentChapter' = Null
  /\ chapterCounter' = (IF chapterCounter = 0 THEN 1 ELSE chapterCounter)
  /\ subChapterCounter' = 1
  /\ i' = 1
  /\ pc' = "body"
  /\ UNCHANGED <<data, title, description, usedFallback, result>>
  /\ UNCHANGED env

\* variant: the body loop starts at row 0
BeginBodyFromRowZero ==
  /\ pc = "meta"
  /\ ~(i < MetaWindow(Len(data.rows)))
  /\ chapters' = <<>>
  /\ currentChapter' = Null
  /\ chapterCounter' = 1
  /\ subChapterCounter' = 1
  /\ i' = 0
  /\ pc' = "body"
  /\ UNCHANGED <<data, title, description, usedFallback, result>>
  /\ UNCHANGED env

\* lines 567-573: the metadata loop ends, the body loop starts at row 1
BeginBody ==
  /\ pc = "meta"
  /\ ~(i < MetaWindow(Len(data.rows)))
  /\ chapters' = <<>>
  /\ currentChapter' = Null
  /\ chapterCounter' = 1
  /\ subChapterCounter' = 1
  /\ i' = 1
  /\ pc' = "body"
  /\ UNCHANGED <<data, title, description, usedFallback, result>>
  /\ UNCHANGED env

\* lines 573-618: one iteration of the body loop
BodyScanStep ==
  /\ pc = "body"
  /\ i < Len(data.rows)
  /\ LET st == BodyRowStep(Locals(chapters, currentChapter, chapterCounter,
                                  subChapterCounter),
                           RowAt(data, i))
     IN  /\ chapters' = st.chapters
         /\ currentChapter' = st.currentChapter
         /\ chapterCounter' = st.chapterCounter
         /\ subChapterCounter' = st.subChapterCounter
  /\ i' = i + 1
  /\ UNCHANGED <<data, pc, title, description, usedFallback, result>>
  /\ UNCHANGED env

\* variant: the last open chapter is not pushed
FlushLastNothing ==
  /\ pc = "body"
  /\ ~(i < Len(data.rows))
  /\ chapters' = chapters
  /\ pc' = "fallback"
  /\ UNCHANGED <<data, i, title, description, currentChapter,
                 chapterCounter, subChapterCounter, usedFallback, result>>
  /\ UNCHANGED env

\* lines 620-623: the body loop ends, the last open chapter is pushed
FlushLast ==
  /\ pc = "body"
  /\ ~(i < Len(data.rows))
  /\ chapters' = IF currentChapter # Null
                   THEN Append(chapters, currentChapter)
                   ELSE chapters
  /\ pc' = "fallback"
  /\ UNCHANGED <<data, i, title, description, currentChapter,
                 chapterCounter, subChapterCounter, usedFallback, result>>
  /\ UNCHANGED env

\* line 626 is false: chapters were found
SkipFallback ==
  /\ pc = "fallback"
  /\ Len(chapters) # 0
  /\ pc' = "return"
  /\ UNCHANGED <<data, i, title, description, chapters, currentChapter,
                 chapterCounter, subChapterCounter, usedFallback, result>>
  /\ UNCHANGED env

\* lines 626-633: the default chapter is pushed
Fallback ==
  /\ pc = "fallback"
  /\ Len(chapters) = 0
  /\ ~FallbackThrows(data)
  /\ usedFallback' = TRUE
  /\ chapters' = Append(chapters, FallbackChapter(data))
  /\ pc' = "return"
  /\ UNCHANGED <<data, i, title, description, currentChapter,
                 chapterCounter, subChapterCounter, result>>
  /\ UNCHANGED env

\* line 630: row.join on a null or undefined row throws a TypeError
FallbackTypeError ==
  /\ pc = "fallback"
  /\ Len(chapters) = 0
  /\ FallbackThrows(data)
  /\ usedFallback' = TRUE
  /\ result' = Thrown("TypeError", "Cannot read properties of null")
  /\ pc' = "done"
  /\ UNCHANGED <<data, i, title, description, chapters, currentChapter,
                 chapterCounter, subChapterCounter>>
  /\ UNCHANGED env

\* lines 635-639
Return ==
  /\ pc = "return"
  /\ result' = Returned(title, description, chapters)
  /\ pc' = "done"
  /\ UNCHANGED <<data, i, title, description, chapters, currentChapter,
                 chapterCounter, subChapterCounter, usedFallback>>
  /\ UNCHANGED env

Next ==
  \/ ThrowEmpty
  \/ BeginMeta
  \/ MetaScanStep
  \/ BeginBody
  \/ BodyScanStep
  \/ FlushLast
  \/ SkipFallback
  \/ Fallback
  \/ FallbackTypeError
  \/ Return

Spec == Init /\ [][Next]_vars

(***************************************************************************)
(* POST /api/documents/import-excel, src/shared/schema.ts:160-198, and     *)
(* MemStorage.createDocument, src/server/storage.ts:138-149.  The handler  *)
(* runs without suspension from the request to the call of createDocument, *)
(* so requests are served one after the other.  An uploaded file is        *)
(* represented by the grid XLSX.utils.sheet_to_json decodes from it.       *)
(***************************************************************************)
\* the decoded files the requests carry
\* the text in capital letters
ToUpperCase(s) ==
  [k \in 1..Len(s) |->
     IF s[k] \in Range(LowerCase)
       THEN UpperCase[CHOOSE n \in DOMAIN LowerCase : LowerCase[n] = s[k]]
       ELSE s[k]]

\* the row with the letters of a string cell 0 in capitals, in small letters
UpperCell0(row) ==
  [row EXCEPT !.cells[1] = Str(ToUpperCase(row.cells[1].s))]

LowerCell0(row) ==
  [row EXCEPT !.cells[1] = Str(ToLowerCase(row.cells[1].s))]

\* metadata, keyword, subchapter, content and lettered rows in mixed case
CaseRows ==
  <<TitleRow, OverviewRow, DashItemRow, ParenNoteRow, HashBudgetRow,
    LetterItemRow>>

\* the grid of CaseRows and its two variants in one letter case
CaseGrids ==
  {Grid(CaseRows),
   Grid([k \in 1..Len(CaseRows) |-> UpperCell0(CaseRows[k])]),
   Grid([k \in 1..Len(CaseRows) |-> LowerCell0(CaseRows[k])])}

ImportGrids ==
  CaseGrids \cup
  {Grid(<<>>),
   Grid(<<HeaderRow, NullRow>>),
   Grid(<<HeaderRow, BangRow>>),
   Grid(<<HashBudgetRow, BangRow>>),
   Grid(<<NullRow, BangRow>>),
   Grid(<<HeaderRow, PlanRow, DashItemRow>>),
   Grid(<<PlanRow, PlanRow, DashItemRow>>),
   Grid(<<DashItemRow, PlanRow, DashItemRow>>),
   Grid(<<HeaderRow, PlanRow, BuildRow, DashItemRow, BulletPointRow>>),
   Grid(<<TitleRow, BangRow, BangRow, BangRow, BangRow>>),
   Grid(<<TitleRow, BangRow, BangRow, BangRow, BangRow, DescriptionRow>>),
   Grid(<<TitleRow, BangRow, BangRow, BangRow, BangRow, OtherTitleRow>>)}

\* req.file is undefined
NoFile == [kind |-> "nofile", rows |-> <<>>]

\* parseInt(req.body.authorId): 0 stands for NaN and for 0
AuthorIds == {0, 1}

\* the server is idle: storage is constructed, no call is in progress
InitServer ==
  /\ data = NoGrid
  /\ pc = "idle"
  /\ i = 0
  /\ title = <<>>
  /\ description = <<>>
  /\ chapters = <<>>
  /\ currentChapter = Null
  /\ chapterCounter = 0
  /\ subChapterCounter = 0
  /\ usedFallback = FALSE
  /\ result = NoResult
  /\ InitEnv

parserVars == <<data, pc, i, title, description, chapters, currentChapter,
                chapterCounter, subChapterCounter, usedFallback, result>>

\* lines 162-164: no file uploaded
ImportNoFile ==
  /\ pc = "idle"
  /\ served < MaxRequests
  /\ response' = [status |-> 400, message |-> "No file uploaded"]
  /\ served' = served + 1
  /\ UNCHANGED <<parserVars, documents, currentDocumentId, clock, authorId,
                 calls>>
  /\ UNCHANGED <<users, currentUserId, assigned, other>>

\* lines 166-169: the author id is missing, not a number, or 0
ImportNoAuthor ==
  /\ pc = "idle"
  /\ served < MaxRequests
  /\ \E file \in ImportGrids, a \in AuthorIds :
       /\ a = 0
       /\ authorId' = a
  /\ response' = [status |-> 400, message |-> "Author ID is required"]
  /\ served' = served + 1
  /\ UNCHANGED <<parserVars, documents, currentDocumentId, clock, calls>>
  /\ UNCHANGED <<users, currentUserId, assigned, other>>

\* lines 172-178: the file is decoded and parseExcelToSoW is called
ImportParse ==
  /\ pc = "idle"
  /\ served < MaxRequests
  /\ \E file \in ImportGrids, a \in AuthorIds :
       /\ a # 0
       /\ authorId' = a
       /\ data' = file
  /\ pc' = "entry"
  /\ usedFallback' = FALSE
  /\ result' = NoResult
  /\ response' = [status |-> 0]
  /\ UNCHANGED <<i, title, description, chapters, currentChapter,
                 chapterCounter, subChapterCounter, documents,
                 currentDocumentId, clock, calls, served>>
  /\ UNCHANGED <<users, currentUserId, assigned, other>>

\* variant: the document id is taken before the file is parsed
ImportRejectConsumesId ==
  /\ pc = "done"
  /\ result.kind = "throw"
  /\ response' = [status |-> 500, message |-> result.message]
  /\ calls' = Append(calls, [data |-> data, result |-> result])
  /\ served' = served + 1
  /\ pc' = "idle"
  /\ currentDocumentId' = currentDocumentId + 1
  /\ UNCHANGED <<data, i, title, description, chapters, currentChapter,
                 chapterCounter, subChapterCounter, usedFallback, result,
                 documents, clock, authorId>>
  /\ UNCHANGED <<users, currentUserId, assigned, other>>

\* lines 192-197: the error thrown by parseExcelToSoW is caught
ImportReject ==
  /\ pc = "done"
  /\ result.kind = "throw"
  /\ response' = [status |-> 500, message |-> result.message]
  /\ calls' = Append(calls, [data |-> data, result |-> result])
  /\ served' = served + 1
  /\ pc' = "idle"
  /\ UNCHANGED <<data, i, title, description, chapters, currentChapter,
                 chapterCounter, subChapterCounter, usedFallback, result,
                 documents, currentDocumentId, clock, authorId>>
  /\ UNCHANGED <<users, currentUserId, assigned, other>>

\* storage.ts lines 139-148: the stored document of createDocument
NewDocument(id, now, parsed, author) ==
  [id |-> id,
   title |-> parsed.title,
   description |-> parsed.description,
   content |-> [chapters |-> parsed.chapters],
   type |-> "sow",
   status |-> "draft",
   authorId |-> author,
   templateId |-> "null",
   createdAt |-> now,
   updatedAt |-> now]

\* lines 181-191 and storage.ts lines 138-149: the document is created
ImportCreate ==
  /\ pc = "done"
  /\ result.kind = "return"
  /\ LET doc == NewDocument(currentDocumentId, clock + 1, result, authorId)
     IN  /\ documents' = documents @@ (currentDocumentId :> doc)
         /\ response' = [status |-> 200, document |-> doc]
  /\ currentDocumentId' = currentDocumentId + 1
  /\ clock' = clock + 1
  /\ calls' = Append(calls, [data |-> data, result |-> result])
  /\ served' = served + 1
  /\ pc' = "idle"
  /\ UNCHANGED <<data, i, title, description, chapters, currentChapter,
                 chapterCounter, subChapterCounter, usedFallback, result,
                 authorId>>
  /\ assigned' = Append(assigned, currentDocumentId)
  /\ UNCHANGED <<users, currentUserId, other>>

\* variant: the chapter number is the array index
PdfChapterHeadingZeroBased(chapter, index) ==
  NumberToString(index) \o <<".", " ">> \o chapter.title

\* line 503: `${index + 1}. ${chapter.title}`
PdfChapterHeading(chapter, index) ==
  NumberToString(index + 1) \o <<".", " ">> \o chapter.title

\* line 513: `${index + 1}.${subIndex + 1} ${subchapter.title}`
PdfSubchapterHeading(subchapter, index, subIndex) ==
  NumberToString(index + 1) \o <<".">> \o NumberToString(subIndex + 1)
    \o <<" ">> \o subchapter.title

\* one doc.fontSize(size).text(text) call
PdfLine(size, text) == [size |-> size, text |-> text]

\* lines 512-519: the lines of the subchapters from subIndex on
RECURSIVE PdfSubchapters(_, _, _)
PdfSubchapters(subchapters, index, subIndex) ==
  IF subIndex >= Len(subchapters) THEN <<>>
  ELSE LET subchapter == subchapters[subIndex + 1]
       IN  <<PdfLine(14, PdfSubchapterHeading(subchapter, index, subIndex))>>
           \o (IF subchapter.content # <<>>
                 THEN <<PdfLine(12, subchapter.content)>> ELSE <<>>)
           \o PdfSubchapters(subchapters, index, subIndex + 1)

\* lines 502-523: the lines of the chapters from index on
RECURSIVE PdfChapters(_, _)
PdfChapters(chs, index) ==
  IF index >= Len(chs) THEN <<>>
  ELSE LET chapter == chs[index + 1]
       IN  <<PdfLine(16, PdfChapterHeading(chapter, index))>>
           \o (IF chapter.content # <<>>
                 THEN <<PdfLine(12, chapter.content)>> ELSE <<>>)
           \o PdfSubchapters(chapter.subchapters, index, 0)
           \o PdfChapters(chs, index + 1)

\* lines 493-524: the text calls of the export, in order
PdfText(document) ==
  <<PdfLine(20, document.title), PdfLine(12, document.description)>>
    \o PdfChapters(document.content.chapters, 0)

\* the ids a request can name
DocumentIds == 1..MaxRequests

\* lines 480-482: the document of the export request does not exist
ExportPdfNotFound ==
  /\ pc = "idle"
  /\ served < MaxRequests
  /\ \E id \in DocumentIds :
       /\ id \notin DOMAIN documents
       /\ response' = [status |-> 404, message |-> "Document not found"]
  /\ served' = served + 1
  /\ UNCHANGED <<parserVars, documents, currentDocumentId, clock, authorId,
                 calls, users, currentUserId, assigned, other>>

\* lines 476-526: the stored document is written as PDF; exported names
\* the document the response is for
ExportPdf ==
  /\ pc = "idle"
  /\ served < MaxRequests
  /\ \E id \in DocumentIds :
       /\ id \in DOMAIN documents
       /\ response' = [status |-> 200, exported |-> id,
                       pdf |-> PdfText(documents[id])]
  /\ served' = served + 1
  /\ UNCHANGED <<parserVars, documents, currentDocumentId, clock, authorId,
                 calls, users, currentUserId, assigned, other>>

NextServer ==
  \/ ImportNoFile
  \/ ImportNoAuthor
  \/ ImportParse
  \/ ThrowEmpty
  \/ BeginMeta
  \/ MetaScanStep
  \/ BeginBody
  \/ BodyScanStep
  \/ FlushLast
  \/ SkipFallback
  \/ Fallback
  \/ FallbackTypeError
  \/ Return
  \/ ImportReject
  \/ ImportCreate
  \/ ExportPdfNotFound
  \/ ExportPdf

SpecServer == InitServer /\ [][NextServer]_vars

(***************************************************************************)
(* The document and user routes over MemStorage.  Request bodies are       *)
(* records; a PUT body is merged into the stored record as the object      *)
(* spread of updateDocument and updateUser does.  A 404 response names the  *)
(* request it answers in the field request.                                *)
(***************************************************************************)
\* { ...base, ...updates }
Spread(base, updates) ==
  [k \in DOMAIN base \cup DOMAIN updates |->
     IF k \in DOMAIN updates THEN updates[k] ELSE base[k]]

\* a body accepted by insertDocumentSchema
InsertDocuments ==
  {[title |-> "A", description |-> "d", content |-> [chapters |-> <<>>],
    type |-> "sow", status |-> "draft", authorId |-> 1,
    templateId |-> "null"]}

\* bodies of PUT /api/documents/:id, passed on unchecked
DocumentUpdates == {[title |-> "B"], [id |-> 1], [id |-> 2]}

\* the ids a document or user request can name
StoreIds == {1, 2}

\* bodies accepted by insertUserSchema
InsertUsers ==
  {[username |-> "admin2", email |-> "admin@example.com",
    password |-> "p", role |-> "user"],
   [username |-> "bob", email |-> "bob@example.com",
    password |-> "p", role |-> "user"]}

\* bodies of PUT /api/users/:id, passed on unchecked
UserUpdates == {[email |-> "admin@example.com"], [role |-> "admin"]}

\* the stored documents and users without the key k
Without(store, k) == [j \in DOMAIN store \ {k} |-> store[j]]

storeFrame == <<data, pc, i, title, description, chapters, currentChapter,
                chapterCounter, subChapterCounter, usedFallback, result,
                authorId, calls, other>>

\* lines 225-232 caught: the body fails insertDocumentSchema
CreateDocumentInvalid ==
  /\ pc = "idle"
  /\ served < MaxStoreRequests
  /\ response' = [status |-> 400, message |-> "Invalid document data"]
  /\ served' = served + 1
  /\ UNCHANGED <<storeFrame, documents, currentDocumentId, clock, assigned,
                 users, currentUserId>>

\* variant: the id is one more than the number of stored documents
CreateDocumentRequestIdFromSize ==
  /\ pc = "idle"
  /\ served < MaxStoreRequests
  /\ \E insertDocument \in InsertDocuments :
       LET id == Cardinality(DOMAIN documents) + 1
           document == Spread(insertDocument,
                              [id |-> id, createdAt |-> clock + 1,
                               updatedAt |-> clock + 1])
       IN  /\ documents' = [k \in DOMAIN documents \cup {id} |->
                              IF k = id THEN document ELSE documents[k]]
           /\ assigned' = Append(assigned, id)
           /\ response' = [status |-> 200, document |-> document]
  /\ currentDocumentId' = currentDocumentId + 1
  /\ clock' = clock + 1
  /\ served' = served + 1
  /\ UNCHANGED <<storeFrame, users, currentUserId>>

\* lines 225-229 and storage.ts lines 138-149: POST /api/documents
CreateDocumentRequest ==
  /\ pc = "idle"
  /\ served < MaxStoreRequests
  /\ \E insertDocument \in InsertDocuments :
       LET id == currentDocumentId
           document == Spread(insertDocument,
                              [id |-> id, createdAt |-> clock + 1,
                               updatedAt |-> clock + 1])
       IN  /\ documents' = [k \in DOMAIN documents \cup {id} |->
                              IF k = id THEN document ELSE documents[k]]
           /\ assigned' = Append(assigned, id)
           /\ response' = [status |-> 200, document |-> document]
  /\ currentDocumentId' = currentDocumentId + 1
  /\ clock' = clock + 1
  /\ served' = served + 1
  /\ UNCHANGED <<storeFrame, users, currentUserId>>

\* lines 235-249 and storage.ts lines 151-158: PUT /api/documents/:id
UpdateDocumentRequest ==
  /\ pc = "idle"
  /\ served < MaxStoreRequests
  /\ \E id \in StoreIds, updates \in DocumentUpdates :
       /\ id \in DOMAIN documents
       /\ LET updatedDocument ==
                Spread(Spread(documents[id], updates),
                       [updatedAt |-> clock + 1])
          IN  /\ documents' = [documents EXCEPT ![id] = updatedDocument]
              /\ response' = [status |-> 200, document |-> updatedDocument]
  /\ clock' = clock + 1
  /\ served' = served + 1
  /\ UNCHANGED <<storeFrame, currentDocumentId, assigned, users,
                 currentUserId>>

\* lines 241-243 and storage.ts line 153: no such document
UpdateDocumentNotFound ==
  /\ pc = "idle"
  /\ served < MaxStoreRequests
  /\ \E id \in StoreIds : id \notin DOMAIN documents
  /\ response' = [status |-> 404, message |-> "Document not found",
                  request |-> "PUT /api/documents/:id"]
  /\ served' = served + 1
  /\ UNCHANGED <<storeFrame, documents, currentDocumentId, clock, assigned,
                 users, currentUserId>>

\* lines 251-264 and storage.ts lines 160-162: DELETE /api/documents/:id
DeleteDocumentRequest ==
  /\ pc = "idle"
  /\ served < MaxStoreRequests
  /\ \E id \in StoreIds :
       /\ id \in DOMAIN documents
       /\ documents' = Without(documents, id)
  /\ response' = [status |-> 200,
                  message |-> "Document deleted successfully"]
  /\ served' = served + 1
  /\ UNCHANGED <<storeFrame, currentDocumentId, clock, assigned, users,
                 currentUserId>>

\* lines 256-258: no such document
DeleteDocumentNotFound ==
  /\ pc = "idle"
  /\ served < MaxStoreRequests
  /\ \E id \in StoreIds : id \notin DOMAIN documents
  /\ response' = [status |-> 404, message |-> "Document not found",
                  request |-> "DELETE /api/documents/:id"]
  /\ served' = served + 1
  /\ UNCHANGED <<storeFrame, documents, currentDocumentId, clock, assigned,
                 users, currentUserId>>

\* storage.ts lines 89-91: a stored user has the email
EmailTaken(email) == \E k \in DOMAIN users : users[k].email = email

\* lines 147-150: POST /api/auth/register with the email of a stored user
RegisterExisting ==
  /\ pc = "idle"
  /\ served < MaxStoreRequests
  /\ \E userData \in InsertUsers : EmailTaken(userData.email)
  /\ response' = [status |-> 400, message |-> "User already exists"]
  /\ served' = served + 1
  /\ UNCHANGED <<storeFrame, documents, currentDocumentId, clock, assigned,
                 users, currentUserId>>

\* lines 143-153 and storage.ts lines 97-106: POST /api/auth/register
Register ==
  /\ pc = "idle"
  /\ served < MaxStoreRequests
  /\ \E userData \in InsertUsers :
       /\ ~EmailTaken(userData.email)
       /\ LET user == NewUser(currentUserId, clock + 1, userData)
          IN  /\ users' = [k \in DOMAIN users \cup {currentUserId} |->
                             IF k = currentUserId THEN user ELSE users[k]]
              /\ response' = [status |-> 200, user |-> user]
  /\ currentUserId' = currentUserId + 1
  /\ clock' = clock + 1
  /\ served' = served + 1
  /\ UNCHANGED <<storeFrame, documents, currentDocumentId, assigned>>

\* lines 396-404 and storage.ts lines 97-106: POST /api/users
CreateUserRequest ==
  /\ pc = "idle"
  /\ served < MaxStoreRequests
  /\ \E userData \in InsertUsers :
       LET user == NewUser(currentUserId, clock + 1, userData)
       IN  /\ users' = [k \in DOMAIN users \cup {currentUserId} |->
                          IF k = currentUserId THEN user ELSE users[k]]
           /\ response' = [status |-> 200, user |-> user]
  /\ currentUserId' = currentUserId + 1
  /\ clock' = clock + 1
  /\ served' = served + 1
  /\ UNCHANGED <<storeFrame, documents, currentDocumentId, assigned>>

\* lines 406-420 and storage.ts lines 108-115: PUT /api/users/:id
UpdateUserRequest ==
  /\ pc = "idle"
  /\ served < MaxStoreRequests
  /\ \E id \in StoreIds, updates \in UserUpdates :
       /\ id \in DOMAIN users
       /\ users' = [users EXCEPT ![id] = Spread(@, updates)]
       /\ response' = [status |-> 200, user |-> Spread(users[id], updates)]
  /\ served' = served + 1
  /\ UNCHANGED <<storeFrame, documents, currentDocumentId, clock, assigned,
                 currentUserId>>

\* lines 412-414: no such user
UpdateUserNotFound ==
  /\ pc = "idle"
  /\ served < MaxStoreRequests
  /\ \E id \in StoreIds : id \notin DOMAIN users
  /\ response' = [status |-> 404, message |-> "User not found",
                  request |-> "PUT /api/users/:id"]
  /\ served' = served + 1
  /\ UNCHANGED <<storeFrame, documents, currentDocumentId, clock, assigned,
                 users, currentUserId>>

\* lines 422-435 and storage.ts lines 121-123: DELETE /api/users/:id
DeleteUserRequest ==
  /\ pc = "idle"
  /\ served < MaxStoreRequests
  /\ \E id \in StoreIds :
       /\ id \in DOMAIN users
       /\ users' = Without(users, id)
  /\ response' = [status |-> 200, message |-> "User deleted successfully"]
  /\ served' = served + 1
  /\ UNCHANGED <<storeFrame, documents, currentDocumentId, clock, assigned,
                 currentUserId>>

\* lines 427-429: no such user
DeleteUserNotFound ==
  /\ pc = "idle"
  /\ served < MaxStoreRequests
  /\ \E id \in StoreIds : id \notin DOMAIN users
  /\ response' = [status |-> 404, message |-> "User not found",
                  request |-> "DELETE /api/users/:id"]
  /\ served' = served + 1
  /\ UNCHANGED <<storeFrame, documents, currentDocumentId, clock, assigned,
                 users, currentUserId>>

NextStore ==
  \/ CreateDocumentInvalid
  \/ CreateDocumentRequest
  \/ UpdateDocumentRequest
  \/ UpdateDocumentNotFound
  \/ DeleteDocumentRequest
  \/ DeleteDocumentNotFound
  \/ RegisterExisting
  \/ Register
  \/ CreateUserRequest
  \/ UpdateUserRequest
  \/ UpdateUserNotFound
  \/ DeleteUserRequest
  \/ DeleteUserNotFound

SpecStore == InitServer /\ [][NextStore]_vars

(***************************************************************************)
(* Two invocations of parseExcelToSoW in progress at once.  The variables  *)
(* of the parser are the locals of the running invocation, other holds     *)
(* the locals of the suspended one; the steps of the two may interleave in *)
(* any order.  The field interleaved records that control changed while    *)
(* both invocations were between their first and their last step.          *)
(***************************************************************************)
ConcurrentGrids ==
  {Grid(<<>>),
   Grid(<<HeaderRow, NullRow>>),
   Grid(<<HeaderRow, BangRow>>),
   Grid(<<HeaderRow, PlanRow, DashItemRow>>),
   Grid(<<HeaderRow, PlanRow, BuildRow, DashItemRow, BulletPointRow>>),
   Grid(<<TitleRow, OverviewRow, ParenNoteRow>>)}

\* the locals of an invocation, as a record
Invocation(d, p, k, t, desc, chs, cur, cc, sc, fb, res, mixed) ==
  [data |-> d, pc |-> p, i |-> k, title |-> t, description |-> desc,
   chapters |-> chs, currentChapter |-> cur, chapterCounter |-> cc,
   subChapterCounter |-> sc, usedFallback |-> fb, result |-> res,
   interleaved |-> mixed]

\* two calls were made, none has taken a step
InitConcurrent ==
  /\ data \in ConcurrentGrids
  /\ pc = "entry"
  /\ i = 0
  /\ title = <<>>
  /\ description = <<>>
  /\ chapters = <<>>
  /\ currentChapter = Null
  /\ chapterCounter = 0
  /\ subChapterCounter = 0
  /\ usedFallback = FALSE
  /\ result = NoResult
  /\ documents = <<>>
  /\ currentDocumentId = 1
  /\ clock = 0
  /\ authorId = 0
  /\ response = [status |-> 0]
  /\ calls = <<>>
  /\ served = 0
  /\ users = (1 :> NewUser(1, 0, AdminUser))
  /\ currentUserId = 2
  /\ assigned = <<>>
  /\ \E d \in ConcurrentGrids :
       other = Invocation(d, "entry", 0, <<>>, <<>>, <<>>, Null, 0, 0,
                          FALSE, NoResult, FALSE)

\* both invocations are between their first and their last step
BothRunning ==
  pc \notin {"entry", "done"} /\ other.pc \notin {"entry", "done"}

\* variant: chapterCounter is declared outside the function
SwitchSharedCounter ==
  /\ other.pc # "none"
  /\ data' = other.data
  /\ pc' = other.pc
  /\ i' = other.i
  /\ title' = other.title
  /\ description' = other.description
  /\ chapters' = other.chapters
  /\ currentChapter' = other.currentChapter
  /\ chapterCounter' = chapterCounter
  /\ subChapterCounter' = other.subChapterCounter
  /\ usedFallback' = other.usedFallback
  /\ result' = other.result
  /\ other' = Invocation(data, pc, i, title, description, chapters,
                         currentChapter, chapterCounter, subChapterCounter,
                         usedFallback, result,
                         other.interleaved \/ BothRunning)
  /\ UNCHANGED <<documents, currentDocumentId, clock, authorId, response,
                 calls, served, users, currentUserId, assigned>>

\* lines 551-553 and 568-571: every local is declared inside the function,
\* so the suspended invocation finds its own locals when it runs again
Switch ==
  /\ other.pc # "none"
  /\ data' = other.data
  /\ pc' = other.pc
  /\ i' = other.i
  /\ title' = other.title
  /\ description' = other.description
  /\ chapters' = other.chapters
  /\ currentChapter' = other.currentChapter
  /\ chapterCounter' = other.chapterCounter
  /\ subChapterCounter' = other.subChapterCounter
  /\ usedFallback' = other.usedFallback
  /\ result' = other.result
  /\ other' = Invocation(data, pc, i, title, description, chapters,
                         currentChapter, chapterCounter, subChapterCounter,
                         usedFallback, result,
                         other.interleaved \/ BothRunning)
  /\ UNCHANGED <<documents, currentDocumentId, clock, authorId, response,
                 calls, served, users, currentUserId, assigned>>

NextConcurrent ==
  \/ ThrowEmpty
  \/ BeginMeta
  \/ MetaScanStep
  \/ BeginBody
  \/ BodyScanStep
  \/ FlushLast
  \/ SkipFallback
  \/ Fallback
  \/ FallbackTypeError
  \/ Return
  \/ Switch

SpecConcurrent == InitConcurrent /\ [][NextConcurrent]_vars

(***************************************************************************)
(* parseExcelToSoW run from its first to its last statement without        *)
(* interruption, as one function of the grid.                              *)
(***************************************************************************)
\* lines 556-566: title and description after the rows from k on
RECURSIVE MetaFrom(_, _, _, _)
MetaFrom(d, k, t, desc) ==
  IF k < MetaWindow(Len(d.rows))
    THEN LET m == MetaRowStep(t, desc, RowAt(d, k))
         IN  MetaFrom(d, k + 1, m.title, m.description)
    ELSE [title |-> t, description |-> desc]

\* lines 573-618: the locals of the body scan after the rows from k on
RECURSIVE BodyFrom(_, _, _)
BodyFrom(d, k, st) ==
  IF k < Len(d.rows)
    THEN BodyFrom(d, k + 1, BodyRowStep(st, RowAt(d, k)))
    ELSE st

\* lines 546-640
ParseAlone(d) ==
  IF IsEmptyInput(d)
    THEN Thrown("Error", "Empty Excel file")
    ELSE LET m == MetaFrom(d, 0, DefaultTitle, DefaultDescription)
             st == BodyFrom(d, 1, Locals(<<>>, Null, 1, 1))
             chs == IF st.currentChapter # Null
                      THEN Append(st.chapters, st.currentChapter)
                      ELSE st.chapters
         IN  IF Len(chs) # 0
               THEN Returned(m.title, m.description, chs)
             ELSE IF FallbackThrows(d)
               THEN Thrown("TypeError", "Cannot read properties of null")
             ELSE Returned(m.title, m.description, <<FallbackChapter(d)>>)

(***************************************************************************)
(* Vocabulary of the properties.                                           *)
(***************************************************************************)
\* the decimal numerals "1", "2", ... as the properties spell them
DecimalNumerals ==
  << <<"1">>, <<"2">>, <<"3">>, <<"4">>, <<"5">>, <<"6">>, <<"7">>, <<"8">>,
     <<"9">>, <<"1","0">>, <<"1","1">>, <<"1","2">> >>

NonEmptyGrid == data.kind = "array" /\ Len(data.rows) >= 1

EmptyInputError == [kind |-> "throw", error |-> "Error",
                    message |-> "Empty Excel file"]

\* the cells of one row joined by a single space
RECURSIVE CellsSpaced(_)
CellsSpaced(cells) ==
  IF cells = <<>> THEN <<>>
  ELSE LET first == IF cells[1].t = "string" THEN cells[1].s
                    ELSE IF cells[1].t = "number"
                      THEN (IF cells[1].n = 0 THEN <<"0">>
                            ELSE DecimalNumerals[cells[1].n])
                    ELSE <<>>
       IN  IF Len(cells) = 1 THEN first
           ELSE first \o <<" ">> \o CellsSpaced(Tail(cells))

\* the rows from position k on, one line per row, separated by newlines
RECURSIVE LinesFrom(_, _)
LinesFrom(rows, k) ==
  IF k > Len(rows) THEN <<>>
  ELSE IF k = Len(rows) THEN CellsSpaced(rows[k].cells)
  ELSE CellsSpaced(rows[k].cells) \o <<"\n">> \o LinesFrom(rows, k + 1)

\* the synthetic chapter of a grid in which no chapter is recognized
ProjectOverviewChapter ==
  [id |-> <<"1">>,
   title |-> <<"P","r","o","j","e","c","t"," ",
               "O","v","e","r","v","i","e","w">>,
   content |-> LinesFrom(data.rows, 2),
   subchapters |-> <<>>]

\* cell 0 of a row contains "title", "project" or "description"
HasMetaKeyword(row) ==
  /\ row.kind = "array"
  /\ Len(row.cells) >= 1
  /\ row.cells[1].t = "string"
  /\ \E kw \in {kwTitle, kwProject, kwDescription} :
       Includes(ToLowerCase(row.cells[1].s), kw)

NoMetaKeywordInFirstFive ==
  \A k \in 1..Len(data.rows) : k <= 5 => ~HasMetaKeyword(data.rows[k])

(***************************************************************************)
(* Properties.                                                             *)
(***************************************************************************)

\* C1: for every grid with at least one row the call returns a document
\* whose chapter list is non-empty.
C1_ChaptersNonEmpty ==
  (pc = "done" /\ NonEmptyGrid)
    => (result.kind = "return" /\ Len(result.chapters) >= 1)

\* C2: a grid that is absent or has zero rows raises the empty-input error
\* and returns no document; no scan is ever started on it.
C2_EmptyInputRaises ==
  (data.kind = "undefined" \/ Len(data.rows) = 0)
    => /\ pc \in {"entry", "done"}
       /\ pc = "done" => result = EmptyInputError

C2_Witness ==
  pc = "done" /\ data.kind = "array" /\ Len(data.rows) = 0
              /\ result.kind = "throw"

\* C3: for every grid with at least one row, whatever its rows and cells
\* are, the call returns a document; the empty-input error is the only
\* error, and it is raised for empty grids only.
C3_OnlyEmptyInputRaises ==
  pc = "done"
    => IF NonEmptyGrid THEN result.kind = "return"
                       ELSE result = EmptyInputError

\* C4: when the chapters come from the body scan and not from the fallback,
\* their ids in array order are "1", "2", ..., "N".
C4_ChapterIdsSequential ==
  (pc = "done" /\ result.kind = "return" /\ ~usedFallback)
    => \A k \in 1..Len(result.chapters) :
         result.chapters[k].id = DecimalNumerals[k]

C4_Witness ==
  pc = "done" /\ result.kind = "return" /\ ~usedFallback
              /\ Len(result.chapters) >= 3

\* C5: in every returned chapter the subchapter ids in array order are
\* "<chapterId>.1", "<chapterId>.2", ...: the numbering restarts in each
\* chapter and carries the id of the containing chapter.
C5_SubchapterIdsSequential ==
  (pc = "done" /\ result.kind = "return")
    => \A c \in 1..Len(result.chapters) :
         \A j \in 1..Len(result.chapters[c].subchapters) :
           result.chapters[c].subchapters[j].id =
             result.chapters[c].id \o <<".">> \o DecimalNumerals[j]

C5_Witness ==
  /\ pc = "done"
  /\ result.kind = "return"
  /\ Len(result.chapters) >= 2
  /\ Len(result.chapters[1].subchapters) >= 1
  /\ Len(result.chapters[2].subchapters) >= 1

\* C6: when no row among the first five has a cell 0 containing "title",
\* "project" or "description", the title and the description keep their
\* defaults from the metadata scan on, and the returned document has them.
C6_MetadataDefaults ==
  (NonEmptyGrid /\ NoMetaKeywordInFirstFive)
    => LET t == <<"I","m","p","o","r","t","e","d"," ","S","o","W"," ",
                  "D","o","c","u","m","e","n","t">>
           d == <<"I","m","p","o","r","t","e","d"," ","f","r","o","m"," ",
                  "E","x","c","e","l"," ","f","i","l","e">>
       IN  /\ pc # "entry" => title = t /\ description = d
           /\ (pc = "done" /\ result.kind = "return")
                => result.title = t /\ result.description = d

C6_Witness ==
  /\ pc = "done"
  /\ result.kind = "return"
  /\ NoMetaKeywordInFirstFive
  /\ Len(data.rows) >= 6
  /\ HasMetaKeyword(data.rows[6])
  /\ CellAt(data.rows[6], 1) # Undefined

\* C7: when the body scan recognizes no chapter, the returned document has
\* exactly one chapter: id "1", title "Project Overview", no subchapters,
\* and as content the rows from index 1 on, the cells of a row joined by a
\* space and the rows joined by a newline.
C7_FallbackChapter ==
  (pc = "done" /\ result.kind = "return" /\ chapterCounter = 1)
    => result.chapters = <<ProjectOverviewChapter>>

C7_Witness ==
  /\ pc = "done"
  /\ result.kind = "return"
  /\ chapterCounter = 1
  /\ Len(data.rows) >= 3
  /\ \E k \in 1..Len(result.chapters[1].content) :
       result.chapters[1].content[k] = "\n"
  /\ \E k \in 1..Len(result.chapters[1].content) :
       result.chapters[1].content[k] = " "

\* C8: a body row of plain un-numbered text without chapter keyword is not
\* a chapter start: a grid whose body holds only "random note" rows yields
\* the single "Project Overview" chapter with the joined rows as content.
C8_PlainTextFallsBack ==
  (/\ pc = "done"
   /\ NonEmptyGrid
   /\ Len(data.rows) >= 2
   /\ \A k \in 2..Len(data.rows) : data.rows[k] = RandomNoteRow)
    => /\ chapterCounter = 1
       /\ result.kind = "return"
       /\ result.chapters = <<ProjectOverviewChapter>>

\* C9: a body row "1.1 Scope" that follows an open chapter is appended to
\* that chapter as subchapter "<chapterId>.<n>" titled "Scope" with the
\* trimmed cell 1 as content, and starts no new chapter.
C9_NumberedRowIsSubchapter ==
  [][(/\ pc = "body"
      /\ i < Len(data.rows)
      /\ RowAt(data, i) = ScopeRow
      /\ currentChapter # Null)
       => /\ chapters' = chapters
          /\ chapterCounter' = chapterCounter
          /\ currentChapter' =
               [currentChapter EXCEPT !.subchapters =
                  Append(@, [id |-> currentChapter.id \o <<".">> \o
                                      DecimalNumerals[Len(@) + 1],
                             title |-> <<"S","c","o","p","e">>,
                             content |-> sInScope])]]_vars

\* C10: a body row whose untrimmed cell 0 starts with two spaces and that
\* follows an open chapter becomes a subchapter titled without the leading
\* spaces, and the next chapter-start row opens a chapter without
\* subchapters: header, "1. Plan", "  sub note", "2. Build" gives chapter
\* "1" with subchapter "1.1" titled "sub note" and chapter "2" with none.
C10_IndentedRowIsSubchapter ==
  (pc = "done"
     /\ data = Grid(<<HeaderRow, PlanRow, SubNoteRow, BuildRow>>))
    => /\ result.kind = "return"
       /\ Len(result.chapters) = 2
       /\ result.chapters[1].id = <<"1">>
       /\ result.chapters[1].subchapters =
            << [id |-> <<"1",".","1">>,
                title |-> <<"s","u","b"," ","n","o","t","e">>,
                content |-> sS] >>
       /\ result.chapters[2].id = <<"2">>
       /\ result.chapters[2].subchapters = <<>>

\* C11: a "Title" metadata row in the body sets the title and produces no
\* chapter: a header, a row "Title" / "My Project" and one keyword chapter
\* row give the title "My Project" and exactly one chapter, the keyword
\* row's, with id "1".
C11_TitleRowIsNoChapter ==
  (pc = "done"
     /\ data = Grid(<<HeaderEmptyRow, TitleRow, OverviewRow>>))
    => /\ result.kind = "return"
       /\ result.title = sMyProject
       /\ Len(result.chapters) = 1
       /\ result.chapters[1].id = <<"1">>
       /\ result.chapters[1].title = sOverview

\* C12: two invocations on equal grids give equal outcomes, whatever other
\* invocations were made before or between them.
C12_EqualGridsEqualDocuments ==
  \A a, b \in 1..Len(calls) :
    calls[a].data = calls[b].data => calls[a].result = calls[b].result

\* two invocations on one grid with chapters, an invocation on another grid
\* between them
C12_Witness ==
  /\ Len(calls) = 3
  /\ calls[1].data = calls[3].data
  /\ calls[2].data # calls[1].data
  /\ calls[1].result.kind = "return"
  /\ calls[2].result.kind = "return"
  /\ calls[3].result.kind = "return"
  /\ calls[2].result.chapters # calls[1].result.chapters
  /\ calls[3].result.chapters[1].id = <<"1">>
  /\ calls[3].result.chapters[1].subchapters # <<>>

\* a request is being handled and its decoded grid has zero rows
HandlingEmptyGrid ==
  /\ pc # "idle"
  /\ data.kind = "array"
  /\ Len(data.rows) = 0

\* C13: an import request whose decoded grid has zero rows is answered
\* with an error response carrying the message of the empty-input error,
\* and from the start of its handling to its response the stored documents
\* and the next-id counter do not change.
C13_EmptyImportRejected ==
  [][HandlingEmptyGrid
       => /\ documents' = documents
          /\ currentDocumentId' = currentDocumentId
          /\ pc' = "idle"
               => /\ response'.status = 500
                  /\ response'.message = EmptyInputError.message]_vars

\* an empty-grid import was rejected after a document had been stored
C13_Witness ==
  /\ pc = "idle"
  /\ served >= 2
  /\ data = Grid(<<>>)
  /\ response = [status |-> 500, message |-> EmptyInputError.message]
  /\ DOMAIN documents = {1}
  /\ currentDocumentId = 2


\* cell 0 of the row is a string that contains the keyword, whatever its case
CellZeroContains(row, kw) ==
  /\ row.kind = "array"
  /\ Len(row.cells) >= 1
  /\ row.cells[1].t = "string"
  /\ Includes(ToLowerCase(row.cells[1].s), kw)

NamesTitle(row) ==
  CellZeroContains(row, kwTitle) \/ CellZeroContains(row, kwProject)

NamesDescription(row) == CellZeroContains(row, kwDescription)

\* cell 1 of the row is a non-empty string or a number other than 0
CellOneGiven(row) ==
  /\ row.kind = "array"
  /\ Len(row.cells) >= 2
  /\ \/ row.cells[2].t = "string" /\ row.cells[2].s # <<>>
     \/ row.cells[2].t = "number" /\ row.cells[2].n # 0

\* the text of cell 1 without the surrounding white space
CellOneText(row) ==
  IF row.cells[2].t = "number"
    THEN DecimalNumerals[row.cells[2].n]
    ELSE Trim(row.cells[2].s)

\* the 1-based positions of the first five rows of the grid
FirstFive(d) == 1..Min(5, Len(d.rows))

\* the last of the positions ks, 0 when there is none
LastOf(ks) == IF ks = {} THEN 0 ELSE CHOOSE k \in ks : \A j \in ks : j <= k

\* the field set by the row at position k, the default when k is 0
FieldFrom(d, k, default) ==
  IF k = 0 THEN default ELSE CellOneText(d.rows[k])

TitleRows(d) ==
  { k \in FirstFive(d) : NamesTitle(d.rows[k]) /\ CellOneGiven(d.rows[k]) }

DescriptionRows(d) ==
  { k \in FirstFive(d) :
      NamesDescription(d.rows[k]) /\ CellOneGiven(d.rows[k]) }

\* the rows that name the description and neither the title nor the project
PureDescriptionRows(d) ==
  { k \in DescriptionRows(d) : ~NamesTitle(d.rows[k]) }

\* C14 as stated: the title is cell 1 of the last of the first five rows
\* whose cell 0 contains "title" or "project" and whose cell 1 is given,
\* the description is cell 1 of the last such row whose cell 0 contains
\* "description"; without such a row the field keeps its default.
C14_LastMatchingRowWins ==
  (pc = "done" /\ result.kind = "return")
    => /\ result.title =
            FieldFrom(data, LastOf(TitleRows(data)), DefaultTitle)
       /\ result.description =
            FieldFrom(data, LastOf(DescriptionRows(data)),
                      DefaultDescription)

\* C14 amended: as above, but a row whose cell 0 contains "title" or
\* "project" counts for the title only, also when it contains
\* "description".
C14_LastMatchingRowWinsTitleFirst ==
  (pc = "done" /\ result.kind = "return")
    => /\ result.title =
            FieldFrom(data, LastOf(TitleRows(data)), DefaultTitle)
       /\ result.description =
            FieldFrom(data, LastOf(PureDescriptionRows(data)),
                      DefaultDescription)

\* two rows set the title to different texts, the later one is followed by
\* a title row without cell 1, and a row names both fields
C14_Witness ==
  /\ pc = "done"
  /\ result.kind = "return"
  /\ \E j, k \in TitleRows(data) :
       /\ j < k
       /\ k = LastOf(TitleRows(data))
       /\ CellOneText(data.rows[j]) # CellOneText(data.rows[k])
       /\ result.title = CellOneText(data.rows[k])
       /\ \E n \in FirstFive(data) :
            n > k /\ NamesTitle(data.rows[n]) /\ ~CellOneGiven(data.rows[n])
  /\ DescriptionRows(data) # PureDescriptionRows(data)

\* the grid cut down to its first five rows
HeadRows(d) == SubSeq(d.rows, 1, Min(5, Len(d.rows)))

\* C15: two grids with the same first five rows give the same title and
\* the same description, whatever their later rows are.
C15_OnlyFirstFiveRows ==
  \A a, b \in 1..Len(calls) :
    (/\ calls[a].result.kind = "return"
     /\ calls[b].result.kind = "return"
     /\ HeadRows(calls[a].data) = HeadRows(calls[b].data))
      => /\ calls[a].result.title = calls[b].result.title
         /\ calls[a].result.description = calls[b].result.description

\* two grids that differ in row 5 only, where one has a metadata row
C15_Witness ==
  \E a, b \in 1..Len(calls) :
    /\ calls[a].result.kind = "return"
    /\ calls[b].result.kind = "return"
    /\ HeadRows(calls[a].data) = HeadRows(calls[b].data)
    /\ Len(calls[a].data.rows) = 5
    /\ Len(calls[b].data.rows) = 6
    /\ NamesTitle(calls[b].data.rows[6])
    /\ CellOneGiven(calls[b].data.rows[6])
    /\ calls[b].result.title # CellOneText(calls[b].data.rows[6])
    /\ calls[b].result.title = calls[a].result.title

\* C16: a scanned row whose cell 0 contains "title" or "project" never
\* changes the description, whether or not it also contains
\* "description".
C16_TitleTestFirst ==
  [][(/\ pc = "meta"
      /\ i < MetaWindow(Len(data.rows))
      /\ NamesTitle(RowAt(data, i)))
       => description' = description]_vars

\* the row "Project description" / "pd" was scanned: it set the title
C16_Witness ==
  /\ pc = "meta"
  /\ i >= 1
  /\ RowAt(data, i - 1) = ProjectDescriptionRow
  /\ title = sPD
  /\ description # sPD


\* the rows of the grid after row 0
LaterRows(d) == SubSeq(d.rows, 2, Len(d.rows))

\* C17: row 0 contributes no chapter, no subchapter, no content line and
\* no fallback content: two non-empty grids that differ in row 0 only have
\* the same outcome and, when a document is returned, the same chapters.
C17_RowZeroNotStructural ==
  \A a, b \in 1..Len(calls) :
    (/\ Len(calls[a].data.rows) >= 1
     /\ Len(calls[b].data.rows) >= 1
     /\ LaterRows(calls[a].data) = LaterRows(calls[b].data))
      => /\ calls[a].result.kind = calls[b].result.kind
         /\ calls[a].result.kind = "return"
              => calls[a].result.chapters = calls[b].result.chapters

\* two grids with the same later rows, one with a header in row 0 and one
\* with a chapter-start row there, gave the same chapters
C17_Witness ==
  \E a, b \in 1..Len(calls) :
    /\ Len(calls[a].data.rows) >= 1
    /\ Len(calls[b].data.rows) >= 1
    /\ calls[a].data.rows[1] = HeaderRow
    /\ calls[b].data.rows[1] = PlanRow
    /\ LaterRows(calls[a].data) = LaterRows(calls[b].data)
    /\ calls[a].result.kind = "return"
    /\ calls[b].result.kind = "return"
    /\ Len(calls[b].result.chapters) = 1
    /\ calls[b].result.chapters[1].subchapters # <<>>

\* the trimmed text of cell 0 of a row with a truthy cell 0
CellZeroText(row) == Trim(ToStr(row.cells[1]))

HasCellZero(row) ==
  /\ row.kind = "array"
  /\ Len(row.cells) >= 1
  /\ Truthy(row.cells[1])

RowIsChapterStart(row) ==
  HasCellZero(row) /\ IsChapterStart(CellZeroText(row))

\* the row matches the subchapter pattern and is no chapter start
RowIsSubchapterOnly(row) ==
  /\ HasCellZero(row)
  /\ ~IsChapterStart(CellZeroText(row))
  /\ IsSubchapterStart(CellZeroText(row))

\* the positions (1-based, after row 0) of the subchapter-pattern rows that
\* no chapter start precedes, and whose row occurs once in the grid
OrphanRows(d) ==
  { k \in 2..Len(d.rows) :
      /\ RowIsSubchapterOnly(d.rows[k])
      /\ \A j \in 2..(k - 1) : ~RowIsChapterStart(d.rows[j])
      /\ \A j \in 1..Len(d.rows) : j # k => d.rows[j] # d.rows[k] }

\* the text occurs in a title or a content of the chapters
TextInChapters(chs, txt) ==
  \E c \in 1..Len(chs) :
    \/ Includes(chs[c].title, txt)
    \/ Includes(chs[c].content, txt)
    \/ \E s \in 1..Len(chs[c].subchapters) :
         \/ Includes(chs[c].subchapters[s].title, txt)
         \/ Includes(chs[c].subchapters[s].content, txt)

\* C18 as stated: the cell-0 text of a subchapter-pattern row met while no
\* chapter is open occurs nowhere in the returned document.
C18_OrphanSubchapterDropped ==
  (pc = "done" /\ result.kind = "return")
    => \A k \in OrphanRows(data) :
         ~TextInChapters(result.chapters, CellZeroText(data.rows[k]))

\* C18 amended: the text occurs nowhere in the returned document when at
\* least one chapter was recognized; when none was, it is part of the
\* content of the fallback chapter.
C18_OrphanSubchapterDroppedUnlessFallback ==
  (pc = "done" /\ result.kind = "return")
    => \A k \in OrphanRows(data) :
         TextInChapters(result.chapters, CellZeroText(data.rows[k]))
           <=> usedFallback

\* a document with recognized chapters was returned for a grid with a
\* subchapter-pattern row before the first chapter start
C18_Witness ==
  /\ pc = "done"
  /\ result.kind = "return"
  /\ ~usedFallback
  /\ OrphanRows(data) # {}
  /\ \E c \in 1..Len(result.chapters) :
       result.chapters[c].subchapters # <<>>


\* what a step of the body loop did to the open chapter
OpenedChapter == chapterCounter' = chapterCounter + 1

AddedSubchapter ==
  /\ currentChapter # Null
  /\ currentChapter' # Null
  /\ currentChapter'.id = currentChapter.id
  /\ Len(currentChapter'.subchapters) = Len(currentChapter.subchapters) + 1

AddedContentLine ==
  /\ currentChapter # Null
  /\ currentChapter' # Null
  /\ currentChapter'.id = currentChapter.id
  /\ currentChapter'.content # currentChapter.content

ChapterStartRows(d) ==
  SelectSeq([k \in 1..(Len(d.rows) - 1) |-> k + 1],
            LAMBDA k : RowIsChapterStart(d.rows[k]))

\* the trimmed text of cell 1, empty when the cell is absent or falsy
CellOneOrEmpty(row) ==
  IF Len(row.cells) >= 2 /\ Truthy(row.cells[2])
    THEN Trim(ToStr(row.cells[2]))
    ELSE <<>>

\* C20: when the body scan has ended and the last open chapter is flushed,
\* the chapter list has one chapter per chapter-start row, in row order;
\* each has the row's trimmed cell 0 as title and a content that begins
\* with the row's trimmed cell 1.
C20_OneChapterPerStartRow ==
  (\/ pc = "fallback"
   \/ pc \in {"return", "done"} /\ NonEmptyGrid /\ ~usedFallback)
    => LET starts == ChapterStartRows(data)
       IN  /\ Len(chapters) = Len(starts)
           /\ \A n \in 1..Len(starts) :
                /\ chapters[n].title = CellZeroText(data.rows[starts[n]])
                /\ StartsWith(chapters[n].content,
                              CellOneOrEmpty(data.rows[starts[n]]))

\* the scan ended with three chapters, one of them with a content line
\* after its first
C20_Witness ==
  /\ pc = "fallback"
  /\ Len(chapters) = 3
  /\ Len(ChapterStartRows(data)) = 3
  /\ Len(data.rows) > 4
  /\ \E n \in 1..3 :
       chapters[n].content #
         CellOneOrEmpty(data.rows[ChapterStartRows(data)[n]])


\* the row is a content line: it has a non-empty cell-0 text and is neither
\* a chapter start nor a subchapter row
RowIsContentLine(row) ==
  /\ HasCellZero(row)
  /\ CellZeroText(row) # <<>>
  /\ ~IsChapterStart(CellZeroText(row))
  /\ ~IsSubchapterStart(CellZeroText(row))

\* "<cell 0>" or "<cell 0>: <cell 1>"
LineOfRow(row) ==
  IF CellOneOrEmpty(row) = <<>>
    THEN CellZeroText(row)
    ELSE CellZeroText(row) \o <<":", " ">> \o CellOneOrEmpty(row)

\* the lines joined by newline
RECURSIVE NewlineJoined(_)
NewlineJoined(lines) ==
  IF lines = <<>> THEN <<>>
  ELSE IF Len(lines) = 1 THEN lines[1]
  ELSE lines[1] \o <<"\n">> \o NewlineJoined(Tail(lines))

\* the lines of the chapter that starts at position k and ends before
\* position e: cell 1 of the start row when non-empty, then the content rows
ChapterLines(d, k, e) ==
  (IF CellOneOrEmpty(d.rows[k]) = <<>>
     THEN <<>> ELSE <<CellOneOrEmpty(d.rows[k])>>)
  \o [n \in 1..Len(SelectSeq([j \in 1..(e - k - 1) |-> k + j],
                             LAMBDA j : RowIsContentLine(d.rows[j])))
        |-> LineOfRow(d.rows[SelectSeq([j \in 1..(e - k - 1) |-> k + j],
                         LAMBDA j : RowIsContentLine(d.rows[j]))[n]])]

\* the position where the n-th chapter ends
ChapterEnd(d, n) ==
  IF n < Len(ChapterStartRows(d))
    THEN ChapterStartRows(d)[n + 1]
    ELSE Len(d.rows) + 1

\* C21: the content of a chapter is cell 1 of its start row, when
\* non-empty, followed by one line per content row seen while the chapter
\* was open, in row order and joined by single newlines; a line is
\* "<cell 0>" or "<cell 0>: <cell 1>".
C21_ChapterContentLines ==
  (\/ pc = "fallback"
   \/ pc \in {"return", "done"} /\ NonEmptyGrid /\ ~usedFallback)
    => \A n \in 1..Len(ChapterStartRows(data)) :
         /\ n <= Len(chapters)
         /\ chapters[n].content =
              NewlineJoined(ChapterLines(data, ChapterStartRows(data)[n],
                                         ChapterEnd(data, n)))

\* a chapter with start content got two lines, one with and one without
\* cell 1
C21_Witness ==
  /\ pc = "done"
  /\ result.kind = "return"
  /\ \E n \in 1..Len(result.chapters) :
       result.chapters[n].content =
         sP \o <<"\n">> \o sParenNote \o <<":", " ">> \o sV
            \o <<"\n">> \o sBang

\* the row of the running body step is absent or has no cell 0
SkippedRow(row) ==
  \/ row.kind # "array"
  \/ Len(row.cells) = 0
  \/ row.cells[1].t = "undefined"
  \/ row.cells[1].t = "string" /\ row.cells[1].s = <<>>
  \/ row.cells[1].t = "number" /\ row.cells[1].n = 0

\* C22: a body row that is absent or whose cell 0 is empty or absent
\* leaves the open chapter, the chapter list and both counters unchanged.
C22_SkippedRowChangesNothing ==
  [][(pc = "body" /\ i < Len(data.rows) /\ SkippedRow(RowAt(data, i)))
       => UNCHANGED <<currentChapter, chapters, chapterCounter,
                      subChapterCounter>>]_vars

\* a null row was passed while a chapter with a subchapter was open
C22_Witness ==
  /\ pc = "body"
  /\ i >= 3
  /\ RowAt(data, i - 1) = NullRow
  /\ currentChapter # Null
  /\ subChapterCounter = 2
  /\ chapterCounter = 2

\* the text is one of the prefixes of the subchapter pattern
IsSubchapterPrefix(p) ==
  \/ p = <<"-">>
  \/ p = <<"bullet">>
  \/ Len(p) = 2 /\ IsAlpha(p[1]) /\ p[2] = ")"
  \/ /\ Len(p) >= 3
     /\ \E dot \in 2..(Len(p) - 1) :
          /\ p[dot] = "."
          /\ \A k \in 1..Len(p) : k # dot => IsDigit(p[k])

\* t is s without a leading prefix and the white space after it
IsWithoutPrefix(t, s) ==
  \E k \in 1..Len(s) :
    /\ IsSubchapterPrefix(SubSeq(s, 1, k))
    /\ \E m \in k..Len(s) :
         /\ \A j \in (k + 1)..m : IsSpace(s[j])
         /\ t = SubSeq(s, m + 1, Len(s))
         /\ t = <<>> \/ ~IsSpace(t[1])

\* C23: the title of a subchapter is the cell-0 text of its row without
\* the leading prefix ("<d>.<d>", "<letter>)", bullet or "-") and the
\* white space that follows the prefix.
C23_SubchapterTitleStripped ==
  [][(pc = "body" /\ i < Len(data.rows) /\ AddedSubchapter)
       => IsWithoutPrefix(
            currentChapter'.subchapters[
              Len(currentChapter'.subchapters)].title,
            CellZeroText(RowAt(data, i)))]_vars

\* the bullet row and the dash row became subchapters "point" and "item"
C23_Witness ==
  /\ pc = "body"
  /\ currentChapter # Null
  /\ Len(currentChapter.subchapters) = 2
  /\ currentChapter.subchapters[1].title = <<"p","o","i","n","t">>
  /\ currentChapter.subchapters[2].title = <<"i","t","e","m">>

\* the text begins with an ASCII letter or a digit
BeginsAlphanumeric(s) ==
  s # <<>> /\ s[1] \in (Range(UpperCase) \cup Range(LowerCase)
                          \cup Range(Digits))

\* the text contains one of the five chapter keywords
HasChapterKeyword(s) ==
  \E kw \in {kwOverview, kwRequirement, kwDeliverable, kwTimeline, kwBudget} :
    Includes(ToLowerCase(s), kw)

SameRowUpToCase(r, q) ==
  /\ r.kind = q.kind
  /\ Len(r.cells) = Len(q.cells)
  /\ \A k \in 2..Len(r.cells) : r.cells[k] = q.cells[k]
  /\ Len(r.cells) >= 1
       => /\ r.cells[1].t = q.cells[1].t
          /\ r.cells[1].n = q.cells[1].n
          /\ ToLowerCase(r.cells[1].s) = ToLowerCase(q.cells[1].s)

SameGridUpToCase(d, e) ==
  /\ d.kind = e.kind
  /\ Len(d.rows) = Len(e.rows)
  /\ \A k \in 1..Len(d.rows) : SameRowUpToCase(d.rows[k], e.rows[k])

\* the ids of the chapters and of their subchapters
ShapeOf(chs) ==
  [c \in 1..Len(chs) |->
     [id |-> chs[c].id,
      subchapters |-> [n \in 1..Len(chs[c].subchapters) |->
                         chs[c].subchapters[n].id]]]

\* C24: two grids that differ only in the letter case of cells 0 have the
\* same outcome, the same title and description (the same rows are
\* metadata rows) and the same number of chapters, subchapters per chapter
\* and ids.
C24_CaseInsensitiveShape ==
  \A a, b \in 1..Len(calls) :
    SameGridUpToCase(calls[a].data, calls[b].data)
      => /\ calls[a].result.kind = calls[b].result.kind
         /\ calls[a].result.kind = "return"
              => /\ calls[a].result.title = calls[b].result.title
                 /\ calls[a].result.description =
                      calls[b].result.description
                 /\ ShapeOf(calls[a].result.chapters) =
                      ShapeOf(calls[b].result.chapters)

\* the mixed-case grid and its two variants were imported; each result has
\* the title of the metadata row, three chapters, a subchapter and a
\* content line
C24_Witness ==
  /\ Len(calls) = 3
  /\ calls[1].data # calls[2].data
  /\ calls[1].data # calls[3].data
  /\ calls[2].data # calls[3].data
  /\ \A a \in 1..3 :
       /\ calls[a].data \in CaseGrids
       /\ calls[a].result.kind = "return"
       /\ calls[a].result.title = sMyProject
       /\ Len(calls[a].result.chapters) = 3
       /\ Len(calls[a].result.chapters[1].subchapters) = 1
       /\ calls[a].result.chapters[1].content # sIntroText


\* number of subchapters of the chapters before position c
RECURSIVE SubchaptersBefore(_, _)
SubchaptersBefore(chs, c) ==
  IF c <= 1 THEN 0
  ELSE SubchaptersBefore(chs, c - 1) + Len(chs[c - 1].subchapters)

\* the response is an exported PDF
IsPdfResponse == response.status = 200 /\ "pdf" \in DOMAIN response

\* C27: in an exported document the chapter at position c (from 1) is
\* printed with the prefix "<c>. " and has the id "<c>", and its subchapter
\* at position n is printed with the prefix "<c>.<n> " and has the id
\* "<c>.<n>".
C27_PrintedNumbersAreIds ==
  IsPdfResponse
    => LET chs == documents[response.exported].content.chapters
           printedChapters ==
             SelectSeq(response.pdf, LAMBDA line : line.size = 16)
           printedSubchapters ==
             SelectSeq(response.pdf, LAMBDA line : line.size = 14)
       IN  /\ Len(printedChapters) = Len(chs)
           /\ Len(printedSubchapters) = SubchaptersBefore(chs, Len(chs) + 1)
           /\ \A c \in 1..Len(chs) :
                /\ chs[c].id = DecimalNumerals[c]
                /\ printedChapters[c].text =
                     DecimalNumerals[c] \o <<".", " ">> \o chs[c].title
                /\ \A n \in 1..Len(chs[c].subchapters) :
                     /\ chs[c].subchapters[n].id =
                          DecimalNumerals[c] \o <<".">> \o DecimalNumerals[n]
                     /\ printedSubchapters[SubchaptersBefore(chs, c) + n].text
                          = DecimalNumerals[c] \o <<".">> \o DecimalNumerals[n]
                              \o <<" ">> \o chs[c].subchapters[n].title

\* a document whose second chapter has two subchapters was exported
C27_Witness ==
  /\ IsPdfResponse
  /\ Len(documents[response.exported].content.chapters) = 2
  /\ Len(documents[response.exported].content.chapters[2].subchapters) = 2
  /\ \E k \in 1..Len(response.pdf) :
       response.pdf[k] =
         [size |-> 14,
          text |-> <<"2", ".", "2", " ", "p", "o", "i", "n", "t">>]


\* C25: when two invocations run interleaved, the outcome of each is the
\* outcome of the same invocation run alone on its grid.
C25_InterleavedAsAlone ==
  /\ pc = "done" => result = ParseAlone(data)
  /\ other.pc = "done" => other.result = ParseAlone(other.data)

\* two invocations finished with chapters after their steps interleaved
C25_Witness ==
  /\ pc = "done"
  /\ other.pc = "done"
  /\ other.interleaved
  /\ result.kind = "return"
  /\ other.result.kind = "return"
  /\ Len(result.chapters) = 2
  /\ Len(other.result.chapters) = 1
  /\ other.result.chapters[1].subchapters # <<>>


\* C28: the ids handed out by createDocument strictly increase, whatever
\* updates and deletions happen between the creations, so no id is handed
\* out twice; every stored document is stored under one of them and the
\* next id is larger than all of them.
C28_DocumentIdsNeverReused ==
  /\ \A a, b \in 1..Len(assigned) : a < b => assigned[a] < assigned[b]
  /\ \A k \in DOMAIN documents : \E a \in 1..Len(assigned) : assigned[a] = k
  /\ \A a \in 1..Len(assigned) : assigned[a] < currentDocumentId

\* a document was created and deleted, another one was created and
\* updated
C28_Witness ==
  /\ Len(assigned) = 2
  /\ assigned[1] \notin DOMAIN documents
  /\ assigned[2] \in DOMAIN documents
  /\ documents[assigned[2]].title = "B"

\* C29: every stored document has an id field equal to the key it is
\* stored under.
C29_DocumentIdIsKey ==
  \A k \in DOMAIN documents : documents[k].id = k

\* C30: no two stored users have the same email address.
C30_UserEmailsUnique ==
  \A a, b \in DOMAIN users : a # b => users[a].email # users[b].email

=============================================================================
